---- MODULE Spec2Model ----
(***************************************************************************)
(* MonsterFloat: arbitrary-precision rational numbers (numerator and      *)
(* denominator are BigInts).  The model follows src/src/MonsterFloat.ts   *)
(* (and its build src/bigfloat.js, which adds the comparison methods).    *)
(*                                                                         *)
(* A client holds one instance (cur) and calls the library.  A call is    *)
(* one step (pc: "idle" -> "returned") that records the receiver, the     *)
(* operand and what the call returned or threw; Continue hands the        *)
(* returned instance to the client.  toNumberString is modelled           *)
(* iteration by iteration (pc = "loop").                                   *)
(*                                                                         *)
(* Strings are sequences of one-character strings.  A thrown exception is *)
(* a return record of kind "error" that every later step of the same      *)
(* expression passes on unchanged.                                         *)
(***************************************************************************)
EXTENDS Integers, Sequences, FiniteSets, TLC

VARIABLES pc, cur, recv, call, ret, carry, extraZeroes, precision, result

vars == <<pc, cur, recv, call, ret, carry, extraZeroes, precision, result>>

(***************************************************************************)
(* Bounds of the model.                                                    *)
(***************************************************************************)
\* numerators, denominators and bigint operands the client passes or keeps
MaxAbs == 4
\* numbers passed by the client are m / 10^e, |m| <= MaxMant, e <= MaxScale
MaxMant == 5
MaxScale == 1
\* exponents (numerator and denominator of the operand) passed to pow
MaxExp == 4
\* strings passed to from have at most MaxStrLen characters
MaxStrLen == 4
\* strings passed to from by the arithmetic client
MaxShortLen == 3
\* toNumberString inputs
MaxRenderNum == 6
MaxRenderDen == 104
\* instances the client formats, normalizes or takes the gcd of
MaxFractionAbs == 12
MaxPrec == 5

Alphabet == {"0", "1", "2", "5", "7", ".", "-", "/"}

(***************************************************************************)
(* BigInt primitives of the host language.                                 *)
(***************************************************************************)
Abs(x) == IF x < 0 THEN -x ELSE x

\* BigInt `/` truncates toward zero
TruncDiv(a, b) ==
    IF (a >= 0) = (b > 0) THEN Abs(a) \div Abs(b) ELSE -(Abs(a) \div Abs(b))

\* BigInt `%` has the sign of the dividend
TruncRem(a, b) == a - b * TruncDiv(a, b)

\* BigInt `**` for a non-negative exponent
RECURSIVE Power(_, _)
Power(b, e) == IF e <= 0 THEN 1 ELSE b * Power(b, e - 1)

DigitChars == <<"0", "1", "2", "3", "4", "5", "6", "7", "8", "9">>

RECURSIVE NatToString(_)
NatToString(n) ==
    IF n < 10 THEN <<DigitChars[n + 1]>>
    ELSE Append(NatToString(n \div 10), DigitChars[(n % 10) + 1])

\* BigInt.prototype.toString
BigIntToString(n) == IF n < 0 THEN <<"-">> \o NatToString(-n) ELSE NatToString(n)

IsDigit(c) == c \in {"0", "1", "2", "3", "4", "5", "6", "7", "8", "9"}

\* char.charCodeAt(0)
CharCode(c) ==
    CASE c = "0" -> 48 [] c = "1" -> 49 [] c = "2" -> 50 [] c = "3" -> 51
      [] c = "4" -> 52 [] c = "5" -> 53 [] c = "6" -> 54 [] c = "7" -> 55
      [] c = "8" -> 56 [] c = "9" -> 57 [] c = "." -> 46 [] c = "-" -> 45
      [] c = "/" -> 47 [] c = "+" -> 43

AllDigits(s) == \A i \in 1..Len(s) : IsDigit(s[i])

RECURSIVE DigitsToNat(_)
DigitsToNat(s) ==
    IF Len(s) = 0 THEN 0
    ELSE 10 * DigitsToNat(SubSeq(s, 1, Len(s) - 1)) + (CharCode(s[Len(s)]) - 48)

Unsigned(s) == IF Len(s) > 0 /\ s[1] = "-" THEN Tail(s) ELSE s

\* BigInt(s) succeeds: an optional sign and at least one digit
\* (the empty string, which BigInt reads as 0n, is rejected before the call)
IsBigIntLiteral(s) == Len(Unsigned(s)) > 0 /\ AllDigits(Unsigned(s))

\* BigInt(s) for such a literal
StringToBigInt(s) ==
    IF Len(s) > 0 /\ s[1] = "-" THEN -DigitsToNat(Tail(s)) ELSE DigitsToNat(s)

DotCount(s) == Cardinality({i \in 1..Len(s) : s[i] = "."})

\* Number.isNaN(Number(s)) over the characters of Alphabet: Number reads the
\* empty string as 0 and otherwise wants an optional sign, digits with at
\* most one '.', and at least one digit
NumberIsNaN(s) ==
    LET u == Unsigned(s)
    IN ~(\/ Len(s) = 0
         \/ /\ \A i \in 1..Len(u) : IsDigit(u[i]) \/ u[i] = "."
            /\ DotCount(u) <= 1
            /\ \E i \in 1..Len(u) : IsDigit(u[i]))

RECURSIVE PadZeroes(_, _)
PadZeroes(s, n) == IF Len(s) >= n THEN s ELSE PadZeroes(<<"0">> \o s, n)

\* Number.prototype.toString for the number m / 10^e (m has no trailing
\* zero when e > 0, and the value is in the range printed without exponent)
NumberToString(m, e) ==
    LET a == Abs(m)
        sign == IF m < 0 THEN <<"-">> ELSE <<>>
    IN IF e = 0 THEN sign \o NatToString(a)
       ELSE sign \o NatToString(a \div Power(10, e)) \o <<".">>
                 \o PadZeroes(NatToString(a % Power(10, e)), e)

\* String.prototype.split("/")
RECURSIVE Split(_)
Split(s) ==
    IF \A i \in 1..Len(s) : s[i] # "/" THEN <<s>>
    ELSE LET k == CHOOSE i \in 1..Len(s) :
                      s[i] = "/" /\ \A j \in 1..(i - 1) : s[j] # "/"
         IN <<SubSeq(s, 1, k - 1)>> \o Split(SubSeq(s, k + 1, Len(s)))

(***************************************************************************)
(* What a call returns or throws.                                          *)
(***************************************************************************)
Instance(n, d) ==
    [kind |-> "instance", numerator |-> n, denominator |-> d,
     error |-> "", bool |-> FALSE, str |-> <<>>]

Throw(e) ==
    [kind |-> "error", numerator |-> 0, denominator |-> 0,
     error |-> e, bool |-> FALSE, str |-> <<>>]

Boolean(b) ==
    [kind |-> "boolean", numerator |-> 0, denominator |-> 0,
     error |-> "", bool |-> b, str |-> <<>>]

String(s) ==
    [kind |-> "string", numerator |-> 0, denominator |-> 0,
     error |-> "", bool |-> FALSE, str |-> s]

\* a returned bigint (held in the numerator field)
BigIntResult(k) ==
    [kind |-> "bigint", numerator |-> k, denominator |-> 0,
     error |-> "", bool |-> FALSE, str |-> <<>>]

None ==
    [kind |-> "none", numerator |-> 0, denominator |-> 0,
     error |-> "", bool |-> FALSE, str |-> <<>>]

DivisionByZero == "Cannot divide by zero"
RangeError == "RangeError"
CannotRead == "Cannot read"

(***************************************************************************)
(* Operands: the union MonsterFloat | bigint | number | string.            *)
(***************************************************************************)
BigIntOperand(k) == [type |-> "bigint", n |-> k, d |-> 1, s |-> <<>>]
NumberOperand(m, e) == [type |-> "number", n |-> m, d |-> e, s |-> <<>>]
StringOperand(s) == [type |-> "string", n |-> 0, d |-> 0, s |-> s]
ObjectOperand(n, d) == [type |-> "object", n |-> n, d |-> d, s |-> <<>>]
NoOperand == [type |-> "none", n |-> 0, d |-> 0, s |-> <<>>]

(***************************************************************************)
(* MonsterMath and MonsterFloat.                                           *)
(***************************************************************************)
RECURSIVE gcd(_, _)
gcd(a, b) == IF b = 0 THEN a ELSE gcd(b, TruncRem(a, b))

\* the constructor without its check
MonsterFloat_unchecked(n, d) == Instance(n, d)

MonsterFloat(n, d) == IF d = 0 THEN Throw(DivisionByZero) ELSE Instance(n, d)

\* normalize that does not reduce
normalize_unreduced(this) == this

\* normalize that divides the numerator only
normalize_numeratorOnly(this) ==
    IF this.kind = "error" THEN this
    ELSE LET g == gcd(this.numerator, this.denominator)
         IN IF g = 0 THEN Throw(RangeError)
            ELSE MonsterFloat(TruncDiv(this.numerator, g), this.denominator)

normalize(this) ==
    IF this.kind = "error" THEN this
    ELSE LET g == gcd(this.numerator, this.denominator)
         IN IF g = 0 THEN Throw(RangeError)
            ELSE MonsterFloat(TruncDiv(this.numerator, g),
                              TruncDiv(this.denominator, g))

\* the scan counting the '.' itself as a decimal place
RECURSIVE scan_countsDot(_, _, _, _, _)
scan_countsDot(n, i, decimalPlaces, res, foundDot) ==
    IF i > Len(n) THEN <<res, decimalPlaces>>
    ELSE IF n[i] = "." THEN scan_countsDot(n, i + 1, decimalPlaces + 1, res, TRUE)
    ELSE scan_countsDot(n, i + 1,
                        IF foundDot THEN decimalPlaces + 1 ELSE decimalPlaces,
                        10 * res + (CharCode(n[i]) - 48), foundDot)

RECURSIVE scan(_, _, _, _, _)
scan(n, i, decimalPlaces, res, foundDot) ==
    IF i > Len(n) THEN <<res, decimalPlaces>>
    ELSE LET dp == IF foundDot THEN decimalPlaces + 1 ELSE decimalPlaces
         IN IF n[i] = "." THEN scan(n, i + 1, dp, res, TRUE)
            ELSE scan(n, i + 1, dp, 10 * res + (CharCode(n[i]) - 48), foundDot)

numberStringToBigFloatHelper(n) ==
    LET r == scan(n, 1, 0, 0, FALSE)
    IN normalize(MonsterFloat(r[1], Power(10, r[2])))

\* the fraction read with the right of the '/' as numerator
readFraction_swapped(s) ==
    LET parts == Split(s)
    IN IF Len(parts) # 2 THEN Throw(CannotRead)
       ELSE IF \E i \in 1..2 : Len(parts[i]) = 0 THEN Throw(CannotRead)
       ELSE IF ~IsBigIntLiteral(parts[1]) \/ ~IsBigIntLiteral(parts[2])
            THEN Throw(CannotRead)
       ELSE LET denom == StringToBigInt(parts[1])
                num == StringToBigInt(parts[2])
                r == normalize(MonsterFloat(num, denom))
            IN IF r.kind = "error" THEN Throw(CannotRead) ELSE r

readFraction(s) ==
    LET parts == Split(s)
    IN IF Len(parts) # 2 THEN Throw(CannotRead)
       ELSE IF \E i \in 1..2 : Len(parts[i]) = 0 THEN Throw(CannotRead)
       ELSE IF ~IsBigIntLiteral(parts[1]) \/ ~IsBigIntLiteral(parts[2])
            THEN Throw(CannotRead)
       ELSE LET denom == StringToBigInt(parts[1])
                num == StringToBigInt(parts[2])
                r == normalize(MonsterFloat(denom, num))
            IN IF r.kind = "error" THEN Throw(CannotRead) ELSE r

from(other) ==
    CASE other.type = "bigint" -> MonsterFloat(other.n, 1)
      [] other.type = "number" ->
            numberStringToBigFloatHelper(NumberToString(other.n, other.d))
      [] other.type = "string" ->
            IF ~NumberIsNaN(other.s) THEN numberStringToBigFloatHelper(other.s)
            ELSE readFraction(other.s)
      [] other.type = "object" -> MonsterFloat(other.n, other.d)

toFractionString(this) ==
    BigIntToString(this.numerator) \o <<"/">> \o BigIntToString(this.denominator)

\* add with other._denominator where this._denominator belongs
add_wrongDenominator(this, other) ==
    LET o == from(other)
    IN IF o.kind = "error" THEN o
       ELSE normalize(MonsterFloat(
                this.numerator * o.denominator + o.numerator * o.denominator,
                this.denominator * o.denominator))

add(this, other) ==
    LET o == from(other)
    IN IF o.kind = "error" THEN o
       ELSE normalize(MonsterFloat(
                this.numerator * o.denominator + o.numerator * this.denominator,
                this.denominator * o.denominator))

negate(this) == MonsterFloat(-this.numerator, this.denominator)

subtract(this, other) ==
    LET o == from(other)
    IN IF o.kind = "error" THEN o
       ELSE LET m == negate(o)
            IN add(this, ObjectOperand(m.numerator, m.denominator))

multiply(this, other) ==
    LET o == from(other)
    IN IF o.kind = "error" THEN o
       ELSE normalize(MonsterFloat(this.numerator * o.numerator,
                                   this.denominator * o.denominator))

\* divide with other._denominator where other._numerator belongs
divide_wrongDenominator(this, other) ==
    LET o == from(other)
    IN IF o.kind = "error" THEN o
       ELSE normalize(MonsterFloat(this.numerator * o.denominator,
                                   this.denominator * o.denominator))

divide(this, other) ==
    LET o == from(other)
    IN IF o.kind = "error" THEN o
       ELSE normalize(MonsterFloat(this.numerator * o.denominator,
                                   this.denominator * o.numerator))

pow(this, other) ==
    LET o == from(other)
    IN IF o.kind = "error" THEN o
       ELSE IF o.numerator < 0 \/ o.denominator < 0 THEN Throw(RangeError)
       ELSE normalize(MonsterFloat(Power(this.numerator, o.numerator),
                                   Power(this.denominator, o.denominator)))

orderOperationHelper(this, op, other) ==
    LET o == from(other)
        l == this.numerator * o.denominator
        r == o.numerator * this.denominator
    IN IF o.kind = "error" THEN o
       ELSE Boolean(CASE op = "===" -> l = r
                      [] op = "<" -> l < r
                      [] op = "<=" -> l <= r
                      [] op = ">" -> l > r
                      [] op = ">=" -> l >= r)

isEqual(this, other) == orderOperationHelper(this, "===", other)
isLessThan(this, other) == orderOperationHelper(this, "<", other)
isLessThanOrEqual(this, other) == orderOperationHelper(this, "<=", other)
isGreaterThan(this, other) == orderOperationHelper(this, ">", other)
isGreaterThanOrEqual(this, other) == orderOperationHelper(this, ">=", other)

(***************************************************************************)
(* toNumberString, one loop iteration at a time.                           *)
(***************************************************************************)
digits(int) == Len(BigIntToString(int))

\* getNextCarry without the + 1n
getNextCarry_noPlusOne(this, precarry) ==
    LET ez == digits(this.denominator - 1) - digits(precarry)
    IN IF ez < 0 THEN <<precarry, ez>> ELSE <<precarry * Power(10, ez), ez>>

\* <<nextCarry, extraZeroes>>; 10n ** extraZeroes throws for a negative
\* exponent, reported as extraZeroes < 0 with the carry left alone
getNextCarry(this, precarry) ==
    LET ez == digits(this.denominator - 1) - digits(precarry) + 1
    IN IF ez < 0 THEN <<precarry, ez>> ELSE <<precarry * Power(10, ez), ez>>

\* no leading zeroes pushed
Zeroes_none(n) == <<>>

\* the "0" pushes of one iteration
RECURSIVE Zeroes(_)
Zeroes(n) == IF n <= 0 THEN <<>> ELSE <<"0">> \o Zeroes(n - 1)

\* the while loop of toNumberString, run to its end
RECURSIVE longDivision(_, _, _, _, _)
longDivision(this, c, ez, p, res) ==
    IF p <= 0 THEN String(res)
    ELSE LET nextDigit == TruncDiv(c, this.denominator)
             pushed == res \o Zeroes(ez - digits(nextDigit))
                           \o BigIntToString(nextDigit)
             nextRest == c - nextDigit * this.denominator
             next == getNextCarry(this, nextRest)
         IN IF nextRest = 0 THEN String(pushed)
            ELSE IF next[2] < 0 THEN Throw(RangeError)
            ELSE longDivision(this, next[1], next[2], p - 1, pushed)

\* toNumberString(p) as one function of the instance
toNumberString(this, p) ==
    LET rest == TruncRem(this.numerator, this.denominator)
        quotient == BigIntToString(TruncDiv(this.numerator, this.denominator))
        first == getNextCarry(this, rest)
    IN IF rest = 0 \/ p <= 0 THEN String(quotient)
       ELSE IF first[2] < 0 THEN Throw(RangeError)
       ELSE longDivision(this, first[1], first[2], p, quotient \o <<".">>)

(***************************************************************************)
(* The client's inputs.                                                    *)
(***************************************************************************)
Ints == (-MaxAbs)..MaxAbs

Numbers ==
    {NumberOperand(m, e) : m \in {k \in (-MaxMant)..MaxMant : k % 10 # 0}, e \in 0..MaxScale}
    \cup {NumberOperand(m, 0) : m \in (-MaxMant)..MaxMant}

Instances(D) == {ObjectOperand(n, d) : n \in Ints, d \in D \ {0}}

\* the type Numeric = MonsterFloat | bigint | number
Numeric == Instances(Ints) \cup {BigIntOperand(k) : k \in Ints} \cup Numbers

\* operands whose instances have a positive denominator and whose numbers
\* are not negative
PositiveNumeric ==
    Instances(1..MaxAbs) \cup {BigIntOperand(k) : k \in Ints}
        \cup {o \in Numbers : o.n >= 0}

Strings(len) == UNION {[1..k -> Alphabet] : k \in 0..len}

\* what the arithmetic client passes to from
FromInputs == Numeric \cup {StringOperand(s) : s \in Strings(MaxShortLen)}

\* what the parsing client passes to from
ParseInputs == Numbers \cup {StringOperand(s) : s \in Strings(MaxStrLen)}

\* the instances the rendering client starts from: a grid, and the examples
\* of the README (355/113) and of the long-division description (1/1000)
RenderInstances ==
    {Instance(n, d) : n \in (-MaxRenderNum)..MaxRenderNum,
                      d \in ((-MaxRenderDen)..MaxRenderDen) \ {0}}
        \cup {Instance(355, 113), Instance(1, 1000)}

Precisions == (-1)..MaxPrec

\* the instances the formatting client starts from, normalized or not
FractionInstances ==
    {Instance(n, d) : n \in (-MaxFractionAbs)..MaxFractionAbs,
                      d \in ((-MaxFractionAbs)..MaxFractionAbs) \ {0}}

\* operands with a non-negative numerator and a positive denominator
NonNegativeNumeric ==
    {ObjectOperand(n, d) : n \in 0..MaxAbs, d \in 1..MaxAbs}
        \cup {BigIntOperand(k) : k \in 0..MaxAbs}

\* the negative integers
NegativeIntegers == {BigIntOperand(k) : k \in (-MaxAbs)..(-1)}

InBounds(r) == Abs(r.numerator) <= MaxAbs /\ Abs(r.denominator) <= MaxAbs

NoCall == [op |-> "none", arg |-> NoOperand]

(***************************************************************************)
(* The state machine.                                                      *)
(***************************************************************************)
Init ==
    /\ pc = "idle"
    /\ cur = Instance(0, 1)
    /\ recv = None
    /\ call = NoCall
    /\ ret = None
    /\ carry = 0
    /\ extraZeroes = 0
    /\ precision = 0
    /\ result = <<>>

\* a call that runs to its return or throw in one step
Call(op, this, arg, r) ==
    /\ pc' = "returned"
    /\ recv' = this
    /\ call' = [op |-> op, arg |-> arg]
    /\ ret' = r
    /\ UNCHANGED <<cur, carry, extraZeroes, precision, result>>

\* new MonsterFloat(n, d)
Construct(D) ==
    /\ pc = "idle"
    /\ \E n \in Ints, d \in D :
           Call("new", None, [type |-> "args", n |-> n, d |-> d, s |-> <<>>],
                MonsterFloat(n, d))

\* MonsterFloat.from(other)
From(inputs) ==
    /\ pc = "idle"
    /\ \E other \in inputs : Call("from", None, other, from(other))

Add(operands) ==
    /\ pc = "idle"
    /\ \E other \in operands : Call("add", cur, other, add(cur, other))

Subtract(operands) ==
    /\ pc = "idle"
    /\ \E other \in operands : Call("subtract", cur, other, subtract(cur, other))

Multiply(operands) ==
    /\ pc = "idle"
    /\ \E other \in operands : Call("multiply", cur, other, multiply(cur, other))

Divide(operands) ==
    /\ pc = "idle"
    /\ \E other \in operands : Call("divide", cur, other, divide(cur, other))

Pow(operands) ==
    /\ pc = "idle"
    /\ \E other \in operands :
           /\ Abs(from(other).numerator) <= MaxExp
           /\ Abs(from(other).denominator) <= MaxExp
           /\ Call("pow", cur, other, pow(cur, other))

IsEqual(operands) ==
    /\ pc = "idle"
    /\ \E other \in operands : Call("isEqual", cur, other, isEqual(cur, other))

IsLessThan(operands) ==
    /\ pc = "idle"
    /\ \E other \in operands :
           Call("isLessThan", cur, other, isLessThan(cur, other))

IsLessThanOrEqual(operands) ==
    /\ pc = "idle"
    /\ \E other \in operands :
           Call("isLessThanOrEqual", cur, other, isLessThanOrEqual(cur, other))

IsGreaterThan(operands) ==
    /\ pc = "idle"
    /\ \E other \in operands :
           Call("isGreaterThan", cur, other, isGreaterThan(cur, other))

IsGreaterThanOrEqual(operands) ==
    /\ pc = "idle"
    /\ \E other \in operands :
           Call("isGreaterThanOrEqual", cur, other,
                isGreaterThanOrEqual(cur, other))

\* the client takes what the call returned: a returned instance (small
\* enough for the model) becomes the receiver of the next call
Continue ==
    /\ pc = "returned"
    /\ pc' = "idle"
    /\ cur' = IF ret.kind = "instance" /\ InBounds(ret) THEN ret ELSE cur
    /\ recv' = None
    /\ call' = NoCall
    /\ ret' = None
    /\ UNCHANGED <<carry, extraZeroes, precision, result>>

\* toNumberString(p) up to the loop: either the early return, or the state
\* before the first iteration
ToNumberString ==
    /\ pc = "idle"
    /\ \E p \in Precisions :
        LET rest == TruncRem(cur.numerator, cur.denominator)
            quotient == BigIntToString(TruncDiv(cur.numerator, cur.denominator))
            first == getNextCarry(cur, rest)
        IN /\ recv' = cur
           /\ call' = [op |-> "toNumberString", arg |-> BigIntOperand(p)]
           /\ UNCHANGED cur
           /\ IF rest = 0 \/ p <= 0
              THEN /\ pc' = "returned"
                   /\ ret' = String(quotient)
                   /\ UNCHANGED <<carry, extraZeroes, precision, result>>
              ELSE IF first[2] < 0
              THEN /\ pc' = "returned"
                   /\ ret' = Throw(RangeError)
                   /\ UNCHANGED <<carry, extraZeroes, precision, result>>
              ELSE /\ pc' = "loop"
                   /\ ret' = None
                   /\ result' = quotient \o <<".">>
                   /\ carry' = first[1]
                   /\ extraZeroes' = first[2]
                   /\ precision' = p

\* one iteration of the long-division loop
LoopStep ==
    /\ pc = "loop"
    /\ precision > 0
    /\ LET nextDigit == TruncDiv(carry, recv.denominator)
           pushed == result \o Zeroes(extraZeroes - digits(nextDigit))
                            \o BigIntToString(nextDigit)
           nextRest == carry - nextDigit * recv.denominator
           next == getNextCarry(recv, nextRest)
       IN /\ result' = pushed
          /\ UNCHANGED <<cur, recv, call>>
          /\ IF nextRest = 0
             THEN /\ pc' = "returned"
                  /\ ret' = String(pushed)
                  /\ UNCHANGED <<carry, extraZeroes, precision>>
             ELSE IF next[2] < 0
             THEN /\ pc' = "returned"
                  /\ ret' = Throw(RangeError)
                  /\ UNCHANGED <<carry, extraZeroes, precision>>
             ELSE /\ pc' = "loop"
                  /\ ret' = None
                  /\ carry' = next[1]
                  /\ extraZeroes' = next[2]
                  /\ precision' = precision - 1

\* the loop condition fails: return result.join("")
LoopExit ==
    /\ pc = "loop"
    /\ precision <= 0
    /\ pc' = "returned"
    /\ ret' = String(result)
    /\ UNCHANGED <<cur, recv, call, carry, extraZeroes, precision, result>>

Next ==
    \/ Construct(Ints)
    \/ From(FromInputs)
    \/ Add(Numeric)
    \/ Subtract(Numeric)
    \/ Multiply(Numeric)
    \/ Divide(Numeric)
    \/ Pow(Numeric)
    \/ IsEqual(Numeric)
    \/ IsLessThan(Numeric)
    \/ IsLessThanOrEqual(Numeric)
    \/ IsGreaterThan(Numeric)
    \/ IsGreaterThanOrEqual(Numeric)
    \/ Continue

Spec == Init /\ [][Next]_vars

\* the client that only constructs instances with a positive denominator and
\* passes no negative number
NextPositive ==
    \/ Construct(1..MaxAbs)
    \/ From(PositiveNumeric)
    \/ Add(PositiveNumeric)
    \/ Subtract(PositiveNumeric)
    \/ Multiply(PositiveNumeric)
    \/ Divide(PositiveNumeric)
    \/ IsEqual(PositiveNumeric)
    \/ IsLessThan(PositiveNumeric)
    \/ IsLessThanOrEqual(PositiveNumeric)
    \/ IsGreaterThan(PositiveNumeric)
    \/ IsGreaterThanOrEqual(PositiveNumeric)
    \/ Continue

SpecPositive == Init /\ [][NextPositive]_vars

\* the client that parses numbers and strings
NextParse == From(ParseInputs)

SpecParse == Init /\ [][NextParse]_vars

\* the client that renders an instance
InitRender ==
    /\ pc = "idle"
    /\ cur \in RenderInstances
    /\ recv = None
    /\ call = NoCall
    /\ ret = None
    /\ carry = 0
    /\ extraZeroes = 0
    /\ precision = 0
    /\ result = <<>>

NextRender == ToNumberString \/ LoopStep \/ LoopExit

SpecRender == InitRender /\ [][NextRender]_vars

\* cur.toFractionString()
ToFractionString ==
    /\ pc = "idle"
    /\ Call("toFractionString", cur, NoOperand, String(toFractionString(cur)))

\* MonsterFloat.from(s) for the string s that toFractionString just returned
FromFractionString ==
    /\ pc = "returned"
    /\ call.op = "toFractionString"
    /\ ret.kind = "string"
    /\ Call("from", None, StringOperand(ret.str), from(StringOperand(ret.str)))

\* cur.normalize()
Normalize ==
    /\ pc = "idle"
    /\ Call("normalize", cur, NoOperand, normalize(cur))

\* MonsterMath.gcd(a, b) for the parts of the instance held, and for a zero
\* second argument
Gcd ==
    /\ pc = "idle"
    /\ \E b \in {cur.denominator, 0} :
           Call("gcd", None,
                [type |-> "args", n |-> cur.numerator, d |-> b, s |-> <<>>],
                BigIntResult(gcd(cur.numerator, b)))

\* the client that holds any instance and formats, re-reads or normalizes it
InitInstance ==
    /\ pc = "idle"
    /\ cur \in FractionInstances
    /\ recv = None
    /\ call = NoCall
    /\ ret = None
    /\ carry = 0
    /\ extraZeroes = 0
    /\ precision = 0
    /\ result = <<>>

NextInstance == ToFractionString \/ FromFractionString \/ Normalize \/ Gcd

SpecInstance == InitInstance /\ [][NextInstance]_vars

\* the client that starts from an instance with a non-negative numerator and
\* a positive denominator, subtracts one such operand from it (or adds or
\* multiplies by one, or by a negative integer), and renders what it holds
InitSigned ==
    /\ pc = "idle"
    /\ cur \in {Instance(n, d) : n \in 0..MaxAbs, d \in 1..MaxAbs}
    /\ recv = None
    /\ call = NoCall
    /\ ret = None
    /\ carry = 0
    /\ extraZeroes = 0
    /\ precision = 0
    /\ result = <<>>

NextSigned ==
    \/ cur.numerator >= 0 /\ cur.denominator > 0 /\ Subtract(NonNegativeNumeric)
    \/ /\ cur.numerator >= 0 /\ cur.denominator > 0
       /\ Add(NonNegativeNumeric \cup NegativeIntegers)
    \/ /\ cur.numerator >= 0 /\ cur.denominator > 0
       /\ Multiply(NonNegativeNumeric \cup NegativeIntegers)
    \/ Continue
    \/ ToNumberString
    \/ LoopStep
    \/ LoopExit

SpecSigned == InitSigned /\ [][NextSigned]_vars

(***************************************************************************)
(* Mathematics the properties are stated with (none of it is the code's).  *)
(***************************************************************************)
Sign(x) == IF x < 0 THEN -1 ELSE IF x > 0 THEN 1 ELSE 0

Min(a, b) == IF a < b THEN a ELSE b

\* no common divisor greater than 1 (so Coprime(0, d) only for |d| = 1)
Coprime(a, b) ==
    /\ (a = 0 => Abs(b) = 1)
    /\ (b = 0 => Abs(a) = 1)
    /\ \A k \in 2..Min(Abs(a), Abs(b)) : ~(a % k = 0 /\ b % k = 0)

\* a/b = c/d as rationals (b, d nonzero)
RatEqual(a, b, c, d) == a * d = c * b

\* a/b < c/d as rationals (b, d nonzero of any sign)
RatLess(a, b, c, d) == (a * d - c * b) * Sign(b) * Sign(d) < 0

\* the rational an operand stands for, as <<numerator, denominator>>
ValueOf(o) ==
    CASE o.type = "bigint" -> <<o.n, 1>>
      [] o.type = "number" -> <<o.n, Power(10, o.d)>>
      [] o.type = "object" -> <<o.n, o.d>>

Returned(op) == pc = "returned" /\ call.op = op

(***************************************************************************)
(* C1.  Every instance that exists has a nonzero denominator: the held     *)
(* instance, the receiver of a call and every returned instance; and       *)
(* new MonsterFloat(n, 0), and a divide whose computed denominator         *)
(* (this denominator times the operand's numerator) is 0, throw and return *)
(* no instance.                                                            *)
(***************************************************************************)
C1_DenominatorNonZero ==
    /\ cur.kind = "instance" /\ cur.denominator # 0
    /\ (recv.kind = "instance" => recv.denominator # 0)
    /\ (ret.kind = "instance" => ret.denominator # 0)
    /\ (Returned("new") /\ call.arg.d = 0 => ret.kind = "error")
    /\ (Returned("divide") /\ call.arg.type \in {"object", "bigint"}
           /\ recv.denominator * call.arg.n = 0 => ret.kind = "error")

C1_Witness ==
    /\ Returned("new") /\ call.arg.d = 0 /\ call.arg.n = 3
    /\ ret.kind = "error" /\ ret.error = DivisionByZero

(***************************************************************************)
(* C2.  For instances a/b and c/d, add returns a value equal to            *)
(* (a*d + c*b)/(b*d), subtract (a*d - c*b)/(b*d), multiply (a*c)/(b*d)    *)
(* and, when c # 0, divide (a*d)/(b*c), as exact rational equality.        *)
(***************************************************************************)
C2_ArithmeticExact ==
    LET a == recv.numerator
        b == recv.denominator
        c == call.arg.n
        d == call.arg.d
    IN pc = "returned" /\ call.arg.type = "object" =>
         /\ call.op = "add" =>
              /\ ret.kind = "instance"
              /\ RatEqual(ret.numerator, ret.denominator, a * d + c * b, b * d)
         /\ call.op = "subtract" =>
              /\ ret.kind = "instance"
              /\ RatEqual(ret.numerator, ret.denominator, a * d - c * b, b * d)
         /\ call.op = "multiply" =>
              /\ ret.kind = "instance"
              /\ RatEqual(ret.numerator, ret.denominator, a * c, b * d)
         /\ call.op = "divide" /\ c # 0 =>
              /\ ret.kind = "instance"
              /\ RatEqual(ret.numerator, ret.denominator, a * d, b * c)

\* 1/2 + 1/3 = 5/6
C2_Witness ==
    /\ Returned("add")
    /\ recv.numerator = 1 /\ recv.denominator = 2
    /\ call.arg = ObjectOperand(1, 3)
    /\ ret.kind = "instance" /\ ret.numerator = 5 /\ ret.denominator = 6

(***************************************************************************)
(* C3.  For x obtained from instances constructed with positive            *)
(* denominators and an operand y of the same kind, isLessThan,             *)
(* isLessThanOrEqual, isGreaterThan and isGreaterThanOrEqual answer as     *)
(* <, <=, > and >= do on the rational values of x and y.                   *)
(***************************************************************************)
C3_OrderAgreesWithValues ==
    LET a == recv.numerator
        b == recv.denominator
        c == ValueOf(call.arg)[1]
        d == ValueOf(call.arg)[2]
    IN /\ Returned("isLessThan") =>
            ret.kind = "boolean" /\ ret.bool = RatLess(a, b, c, d)
       /\ Returned("isLessThanOrEqual") =>
            ret.kind = "boolean" /\ ret.bool = ~RatLess(c, d, a, b)
       /\ Returned("isGreaterThan") =>
            ret.kind = "boolean" /\ ret.bool = RatLess(c, d, a, b)
       /\ Returned("isGreaterThanOrEqual") =>
            ret.kind = "boolean" /\ ret.bool = ~RatLess(a, b, c, d)

(***************************************************************************)
(* C4.  For a non-negative integer exponent n, a.pow(n) equals the n-th    *)
(* power of a: numerator^n / denominator^n.                                *)
(***************************************************************************)
C4_PowIsNthPower ==
    Returned("pow") /\ call.arg.type \in {"bigint", "number"}
                    /\ call.arg.n >= 0 /\ ValueOf(call.arg)[2] = 1 =>
        /\ ret.kind = "instance"
        /\ RatEqual(ret.numerator, ret.denominator,
                    Power(recv.numerator, call.arg.n),
                    Power(recv.denominator, call.arg.n))

(***************************************************************************)
(* Decimal numerals, read as text.                                         *)
(***************************************************************************)
\* position of the first '.', or 0
DotAt(s) ==
    IF \A i \in 1..Len(s) : s[i] # "." THEN 0
    ELSE CHOOSE i \in 1..Len(s) : s[i] = "." /\ \A j \in 1..(i - 1) : s[j] # "."

\* number of characters after the '.'
FractionLength(s) == IF DotAt(s) = 0 THEN 0 ELSE Len(s) - DotAt(s)

\* the remainder of schoolbook long division of n by d after i fractional
\* digits, and the i-th fractional digit: floor(n * 10^i / d) mod 10
RECURSIVE Remainder(_, _, _)
Remainder(n, d, i) == IF i = 0 THEN n % d ELSE (Remainder(n, d, i - 1) * 10) % d

ExpansionDigit(n, d, i) == (Remainder(n, d, i - 1) * 10) \div d

\* digits with at most one '.', and at least one digit
IsPlainDecimal(s) ==
    /\ \A i \in 1..Len(s) : IsDigit(s[i]) \/ s[i] = "."
    /\ DotCount(s) <= 1
    /\ \E i \in 1..Len(s) : IsDigit(s[i])

\* the integer formed by all the digits of s
AllDigitsValue(s) == DigitsToNat(SelectSeq(s, IsDigit))

(***************************************************************************)
(* C5.  For numerator >= 0 and denominator > 0, toNumberString(p) returns  *)
(* a string with at most p digits after the decimal point.                 *)
(***************************************************************************)
C5_AtMostPrecisionDigits ==
    Returned("toNumberString") /\ recv.numerator >= 0 /\ recv.denominator > 0
                               /\ ret.kind = "string" =>
        FractionLength(ret.str) <= (IF call.arg.n > 0 THEN call.arg.n ELSE 0)

(***************************************************************************)
(* C6.  For n >= 0, d > 0, p > 0 and n mod d # 0, toNumberString(p)        *)
(* returns floor(n/d), '.', and k >= 1 fractional digits, the i-th of      *)
(* which is the i-th digit of the exact expansion of n/d; and when the     *)
(* loop stopped on a zero remainder the expansion ends there (the numeral  *)
(* is n/d exactly).                                                        *)
(***************************************************************************)
C6_DigitsAreTheExpansion ==
    LET n == recv.numerator
        d == recv.denominator
        s == ret.str
        whole == NatToString(n \div d)
        k == Len(s) - Len(whole) - 1
    IN Returned("toNumberString") /\ n >= 0 /\ d > 0 /\ call.arg.n > 0
                                  /\ n % d # 0 =>
         /\ ret.kind = "string"
         /\ k >= 1
         /\ SubSeq(s, 1, Len(whole)) = whole
         /\ s[Len(whole) + 1] = "."
         /\ \A i \in 1..k :
                s[Len(whole) + 1 + i] = DigitChars[ExpansionDigit(n, d, i) + 1]
         /\ (precision > 0 => Remainder(n, d, k) = 0)

\* the zero run of 1/1000, where the loop stops on a zero remainder
C6_Witness ==
    /\ Returned("toNumberString")
    /\ recv.numerator = 1 /\ recv.denominator = 1000 /\ call.arg.n = 5
    /\ ret.str = <<"0", ".", "0", "0", "1">>
    /\ precision > 0

(***************************************************************************)
(* C7.  Every instance returned by add, subtract, multiply, divide, pow,   *)
(* or by from applied to a number or a string, is in lowest terms.         *)
(***************************************************************************)
C7_LowestTerms ==
    /\ pc = "returned"
    /\ ret.kind = "instance"
    /\ \/ call.op \in {"add", "subtract", "multiply", "divide", "pow"}
       \/ call.op = "from" /\ call.arg.type \in {"number", "string"}
    => (ret.numerator # 0 => Coprime(ret.numerator, ret.denominator))

\* 1/2 + 1/2 is 4/4 before it is normalized
C7_Witness ==
    /\ Returned("add")
    /\ recv.numerator = 1 /\ recv.denominator = 2
    /\ call.arg = ObjectOperand(1, 2)
    /\ ret.kind = "instance" /\ ret.numerator = 1 /\ ret.denominator = 1

(***************************************************************************)
(* C8.  a.divide(b) throws the division-by-zero error exactly when b is    *)
(* zero, returns an instance for every other b, and leaves a as it was.    *)
(***************************************************************************)
C8_DivideByZeroOnly ==
    Returned("divide") =>
        /\ cur = recv
        /\ (ret.kind = "error" /\ ret.error = DivisionByZero)
               <=> (ValueOf(call.arg)[1] = 0)
        /\ (ValueOf(call.arg)[1] # 0 => ret.kind = "instance")

C8_Witness ==
    /\ Returned("divide")
    /\ recv.numerator = 1 /\ recv.denominator = 2
    /\ call.arg = ObjectOperand(0, 1)
    /\ ret.kind = "error" /\ ret.error = DivisionByZero
    /\ cur = recv

(***************************************************************************)
(* C9.  For a string of digits with at most one '.' and at least one       *)
(* digit, from returns (the integer formed by all the digits) /            *)
(* 10^(number of digits after the '.'), in lowest terms.                   *)
(***************************************************************************)
C9_DecimalStringExact ==
    Returned("from") /\ call.arg.type = "string" /\ IsPlainDecimal(call.arg.s) =>
        /\ ret.kind = "instance"
        /\ RatEqual(ret.numerator, ret.denominator,
                    AllDigitsValue(call.arg.s),
                    Power(10, FractionLength(call.arg.s)))
        /\ ret.denominator > 0
        /\ Coprime(ret.numerator, ret.denominator)

\* from("0.75") is 3/4
C9_Witness ==
    /\ Returned("from")
    /\ call.arg = StringOperand(<<"0", ".", "7", "5">>)
    /\ ret.kind = "instance" /\ ret.numerator = 3 /\ ret.denominator = 4

(***************************************************************************)
(* C10.  For a decimal string with a leading '-' and for a negative        *)
(* number, from returns exactly that negative value or throws; it never    *)
(* returns an instance of another value.                                   *)
(***************************************************************************)
C10_NegativeNeverMisparsed ==
    /\ Returned("from") /\ call.arg.type = "number" /\ call.arg.n < 0 =>
          \/ ret.kind = "error"
          \/ /\ ret.kind = "instance"
             /\ RatEqual(ret.numerator, ret.denominator,
                         ValueOf(call.arg)[1], ValueOf(call.arg)[2])
    /\ Returned("from") /\ call.arg.type = "string" /\ Len(call.arg.s) > 0
           /\ call.arg.s[1] = "-" /\ IsPlainDecimal(Tail(call.arg.s)) =>
          \/ ret.kind = "error"
          \/ /\ ret.kind = "instance"
             /\ RatEqual(ret.numerator, ret.denominator,
                         -AllDigitsValue(Tail(call.arg.s)),
                         Power(10, FractionLength(call.arg.s)))

(***************************************************************************)
(* C11.  For every instance r, normalized or not, from(r.toFractionString())*)
(* returns an instance equal in value to r (left of the '/' is the         *)
(* numerator, right of it the denominator); from("3/4") equals            *)
(* from("0.75").                                                           *)
(***************************************************************************)
C11_FractionStringRoundTrip ==
    Returned("from") /\ call.arg.type = "string"
                     /\ call.arg.s = BigIntToString(cur.numerator) \o <<"/">>
                                        \o BigIntToString(cur.denominator) =>
        /\ ret.kind = "instance"
        /\ RatEqual(ret.numerator, ret.denominator, cur.numerator, cur.denominator)
        /\ (call.arg.s = <<"3", "/", "4">> =>
              LET decimal == from(StringOperand(<<"0", ".", "7", "5">>))
              IN RatEqual(ret.numerator, ret.denominator,
                          decimal.numerator, decimal.denominator))

\* -6/4 is written "-6/4" and read back as a value equal to -6/4
C11_Witness ==
    /\ Returned("from")
    /\ cur.numerator = -6 /\ cur.denominator = 4
    /\ call.arg = StringOperand(<<"-", "6", "/", "4">>)
    /\ ret.kind = "instance"
    /\ RatEqual(ret.numerator, ret.denominator, -3, 2)

(***************************************************************************)
(* Fraction text, read as text.                                            *)
(***************************************************************************)
SlashCount(s) == Cardinality({i \in 1..Len(s) : s[i] = "/"})

\* position of the first '/', or 0
SlashAt(s) ==
    IF \A i \in 1..Len(s) : s[i] # "/" THEN 0
    ELSE CHOOSE i \in 1..Len(s) : s[i] = "/" /\ \A j \in 1..(i - 1) : s[j] # "/"

LeftOfSlash(s) == SubSeq(s, 1, SlashAt(s) - 1)

RightOfSlash(s) == SubSeq(s, SlashAt(s) + 1, Len(s))

\* an optional '-' and then one or more digits
IsIntegerText(s) ==
    LET u == IF Len(s) > 0 /\ s[1] = "-" THEN SubSeq(s, 2, Len(s)) ELSE s
    IN Len(u) > 0 /\ \A i \in 1..Len(u) : IsDigit(u[i])

\* not integer/integer: the '/' count is not one, or a side is empty or is
\* not an integer
IsIllFormedFraction(s) ==
    \/ SlashCount(s) # 1
    \/ Len(LeftOfSlash(s)) = 0
    \/ Len(RightOfSlash(s)) = 0
    \/ ~IsIntegerText(LeftOfSlash(s))
    \/ ~IsIntegerText(RightOfSlash(s))

(***************************************************************************)
(* C12.  For every string that is not a decimal numeral (digits with at    *)
(* most one '.', after an optional sign), from throws the parse error and  *)
(* returns no instance whenever the string has not exactly one '/', or a   *)
(* side of the '/' is empty, or a side is not an integer literal.          *)
(***************************************************************************)
C12_IllFormedStringsRejected ==
    Returned("from") /\ call.arg.type = "string"
                     /\ ~IsPlainDecimal(Unsigned(call.arg.s))
                     /\ IsIllFormedFraction(call.arg.s) =>
        ret.kind = "error" /\ ret.error = CannotRead

(***************************************************************************)
(* C13.  Every instance from returns is in lowest terms, whatever it was   *)
(* given: a bigint, a number, a string, or an instance that was            *)
(* constructed unnormalized (from(new MonsterFloat(2n, 4n)) is 1/2).       *)
(***************************************************************************)
C13_FromReturnsNormalized ==
    Returned("from") /\ ret.kind = "instance" =>
        /\ (ret.numerator # 0 => Coprime(ret.numerator, ret.denominator))
        /\ (call.arg = ObjectOperand(2, 4) =>
                ret.numerator = 1 /\ ret.denominator = 2)

(***************************************************************************)
(* C14.  For every n and every d # 0 of any signs, normalize returns an    *)
(* instance equal in value to n/d, and normalizing that instance again     *)
(* returns the same numerator and the same denominator.                    *)
(***************************************************************************)
C14_NormalizeIdempotent ==
    Returned("normalize") =>
        /\ ret.kind = "instance"
        /\ RatEqual(ret.numerator, ret.denominator,
                    recv.numerator, recv.denominator)
        /\ normalize(ret).kind = "instance"
        /\ normalize(ret).numerator = ret.numerator
        /\ normalize(ret).denominator = ret.denominator

\* -6/4 is normalized to 3/-2, which normalize leaves as it is
C14_Witness ==
    /\ Returned("normalize")
    /\ recv.numerator = -6 /\ recv.denominator = 4
    /\ ret.kind = "instance" /\ ret.numerator = 3 /\ ret.denominator = -2
    /\ normalize(ret) = ret

(***************************************************************************)
(* The greatest common divisor of the integers.                            *)
(***************************************************************************)
Max(a, b) == IF a < b THEN b ELSE a

Divides(k, a) == a % k = 0

\* the largest positive common divisor, and 0 for (0, 0)
GreatestCommonDivisor(a, b) ==
    IF a = 0 /\ b = 0 THEN 0
    ELSE CHOOSE g \in 1..Max(Abs(a), Abs(b)) :
            /\ Divides(g, a) /\ Divides(g, b)
            /\ \A k \in (g + 1)..Max(Abs(a), Abs(b)) :
                   ~(Divides(k, a) /\ Divides(k, b))

(***************************************************************************)
(* C15.  MonsterMath.gcd(a, b) returns the non-negative greatest common    *)
(* divisor of a and b for all integers (0 for (0, 0)), and so normalize    *)
(* returns a denominator of the sign of the denominator it was given.      *)
(***************************************************************************)
C15_GcdNonNegative ==
    /\ Returned("gcd") =>
          /\ ret.kind = "bigint"
          /\ ret.numerator >= 0
          /\ ret.numerator = GreatestCommonDivisor(call.arg.n, call.arg.d)
    /\ Returned("normalize") =>
          /\ ret.kind = "instance"
          /\ Sign(ret.denominator) = Sign(recv.denominator)

(***************************************************************************)
(* C16.  For a negative instance x obtained by subtract (or by add or      *)
(* multiply with a negative operand) from instances with non-negative      *)
(* numerators and positive denominators, x.toNumberString(p) is '-'        *)
(* followed by exactly what toNumberString(p) returns for the instance of  *)
(* value |x|, which is digits with at most one '.'.                        *)
(***************************************************************************)
C16_NegativeNumeral ==
    LET magnitude == Instance(Abs(recv.numerator), Abs(recv.denominator))
    IN Returned("toNumberString")
           /\ RatLess(recv.numerator, recv.denominator, 0, 1) =>
         /\ ret.kind = "string"
         /\ Len(ret.str) > 1
         /\ ret.str[1] = "-"
         /\ IsPlainDecimal(Tail(ret.str))
         /\ Tail(ret.str) = toNumberString(magnitude, call.arg.n).str

(***************************************************************************)
(* C17.  Loop invariant of toNumberString for numerator >= 0 and           *)
(* denominator d > 0.  Whenever the loop holds a carry that getNextCarry   *)
(* computed, its argument precarry (carry / 10^extraZeroes) satisfied      *)
(* 0 < precarry < d and extraZeroes >= 1 (so getNextCarry never throws);   *)
(* the next digit group satisfies 1 <= nextDigit < 10^extraZeroes; an      *)
(* iteration appends exactly extraZeroes characters, nextDigit padded with *)
(* zeros on the left; and an iteration runs only while precision > 0 and   *)
(* either returns or decrements precision, so at most precision            *)
(* iterations run.                                                         *)
(***************************************************************************)
C17_LoopInvariant ==
    [][/\ pc = "idle" /\ cur.numerator >= 0 /\ cur.denominator > 0
           /\ pc' = "returned" => ret'.kind = "string"
       /\ pc = "loop" /\ recv.numerator >= 0 /\ recv.denominator > 0 =>
            LET d == recv.denominator
                scale == Power(10, extraZeroes)
                precarry == carry \div scale
                nextDigit == carry \div d
            IN /\ extraZeroes >= 1
               /\ carry = precarry * scale
               /\ 0 < precarry /\ precarry < d
               /\ 1 <= nextDigit /\ nextDigit < scale
               /\ 0 <= precision /\ precision <= call.arg.n
               /\ pc' \in {"loop", "returned"}
               /\ (pc' = "returned" => ret'.kind = "string")
               /\ IF precision > 0
                  THEN /\ Len(result') = Len(result) + extraZeroes
                       /\ result' = result \o PadZeroes(NatToString(nextDigit),
                                                        extraZeroes)
                       /\ (pc' = "loop" => precision' = precision - 1)
                  ELSE pc' = "returned" /\ result' = result
      ]_vars

\* 1/1000: the first carry is 1 * 10^3, and the digit group is "001"
C17_Witness ==
    /\ pc = "loop"
    /\ recv.numerator = 1 /\ recv.denominator = 1000
    /\ extraZeroes = 3 /\ carry = 1000
    /\ precision = call.arg.n /\ precision > 0
    /\ result = <<"0", ".">>

====
